---- MODULE Spec2Model ----
(***************************************************************************)
(* Model of core/framework/llm/anthropic.py: the API-key resolver          *)
(* (_get_api_key_from_credential_store), the key validator                 *)
(* (_validate_api_key) and the AnthropicProvider facade over               *)
(* LiteLLMProvider.                                                        *)
(*                                                                         *)
(* A Python str is a sequence of characters; each character is a           *)
(* one-element TLA+ string.  "VT", "FF" and "FS" stand for the characters  *)
(* \x0b, \x0c and \x1c, which have no TLA+ escape.                         *)
(***************************************************************************)
EXTENDS Integers, Sequences, FiniteSets, TLC

VARIABLES vIn, vOut, vOut2, env, store, instances, last

vars == <<vIn, vOut, vOut2, env, store, instances, last>>

(***************************************************************************)
(* Characters                                                              *)
(***************************************************************************)
\* The characters the control-character check looks for: '\n\r\t\x0b\x0c'.
ControlChars == {"\n", "\r", "\t", "VT", "FF"}

\* The characters str.strip() with no argument removes (str.isspace), as far
\* as they occur in the model: the space, the five above, and \x1c, which is
\* whitespace for Python without being one of the five.
Whitespace == {" ", "\n", "\r", "\t", "VT", "FF", "FS"}

DQ == "\""
SQ == "'"

\* The literal 'sk-ant-'.
KeyPrefix == <<"s", "k", "-", "a", "n", "t", "-">>

\* The slice bound of normalized_key[:10] in the format error's message.
ShownLen == 10

(***************************************************************************)
(* str methods                                                             *)
(***************************************************************************)
RECURSIVE LStrip(_)
LStrip(s) ==
    IF s # <<>> /\ Head(s) \in Whitespace THEN LStrip(Tail(s)) ELSE s

RECURSIVE RStrip(_)
RStrip(s) ==
    IF s # <<>> /\ s[Len(s)] \in Whitespace
    THEN RStrip(SubSeq(s, 1, Len(s) - 1))
    ELSE s

\* A strip that removes at most one character from each end.
StripOnce(s) ==
    LET l == IF s # <<>> /\ Head(s) \in Whitespace THEN Tail(s) ELSE s
    IN  IF l # <<>> /\ l[Len(l)] \in Whitespace
        THEN SubSeq(l, 1, Len(l) - 1)
        ELSE l

\* A strip that removes leading whitespace only.
StripLeft(s) == LStrip(s)

\* str.strip()
Strip(s) == RStrip(LStrip(s))

\* str.startswith(p)
StartsWith(s, p) ==
    /\ Len(p) <= Len(s)
    /\ \A i \in 1..Len(p) : s[i] = p[i]

\* str.endswith(p)
EndsWith(s, p) ==
    /\ Len(p) <= Len(s)
    /\ \A i \in 1..Len(p) : s[Len(s) - Len(p) + i] = p[i]

\* s[:n]
Take(s, n) == SubSeq(s, 1, IF n < Len(s) THEN n ELSE Len(s))

(***************************************************************************)
(* _validate_api_key                                                       *)
(***************************************************************************)
\* The function's outcome: the normalized key returned, or the ValueError
\* raised (named as in the error taxonomy); shown is the part of the key the
\* format error's message quotes.
Ok(k)        == [status |-> "ok", key |-> k, shown |-> <<>>]
Raise(e, sh) == [status |-> e, key |-> <<>>, shown |-> sh]
NotRun       == [status |-> "not_run", key |-> <<>>, shown |-> <<>>]

\* The validator with the control-character check moved after the strip.
ValidateStripFirst(api_key) ==
    LET normalized_key == Strip(api_key) IN
    IF api_key = <<>> \/ normalized_key = <<>>
    THEN Raise("EmptyOrWhitespace", <<>>)
    ELSE IF \E i \in 1..Len(normalized_key) : normalized_key[i] \in ControlChars
    THEN Raise("ControlCharacters", <<>>)
    ELSE IF \/ StartsWith(normalized_key, <<DQ>>) /\ EndsWith(normalized_key, <<DQ>>)
            \/ StartsWith(normalized_key, <<SQ>>) /\ EndsWith(normalized_key, <<SQ>>)
    THEN Raise("QuotedKey", <<>>)
    ELSE IF ~StartsWith(normalized_key, KeyPrefix)
    THEN Raise("UnexpectedFormat", Take(normalized_key, ShownLen))
    ELSE Ok(normalized_key)

\* The validator without the prefix check.
ValidateNoPrefix(api_key) ==
    LET normalized_key == Strip(api_key) IN
    IF api_key = <<>> \/ normalized_key = <<>>
    THEN Raise("EmptyOrWhitespace", <<>>)
    ELSE IF \E i \in 1..Len(api_key) : api_key[i] \in ControlChars
    THEN Raise("ControlCharacters", <<>>)
    ELSE IF \/ StartsWith(normalized_key, <<DQ>>) /\ EndsWith(normalized_key, <<DQ>>)
            \/ StartsWith(normalized_key, <<SQ>>) /\ EndsWith(normalized_key, <<SQ>>)
    THEN Raise("QuotedKey", <<>>)
    ELSE Ok(normalized_key)

ValidateApiKey(api_key) ==
    IF api_key = <<>> \/ Strip(api_key) = <<>>
    THEN Raise("EmptyOrWhitespace", <<>>)
    ELSE IF \E i \in 1..Len(api_key) : api_key[i] \in ControlChars
    THEN Raise("ControlCharacters", <<>>)
    ELSE LET normalized_key == Strip(api_key) IN
         IF \/ StartsWith(normalized_key, <<DQ>>) /\ EndsWith(normalized_key, <<DQ>>)
            \/ StartsWith(normalized_key, <<SQ>>) /\ EndsWith(normalized_key, <<SQ>>)
         THEN Raise("QuotedKey", <<>>)
         ELSE IF ~StartsWith(normalized_key, KeyPrefix)
         THEN Raise("UnexpectedFormat", Take(normalized_key, ShownLen))
         ELSE Ok(normalized_key)

(***************************************************************************)
(* Raw keys handed to the validator                                        *)
(***************************************************************************)
\* Longest run of padding characters put before and after a core.
MaxPad == 2

PadChars == {" ", "\n", DQ, "FS"}

RECURSIVE SeqsUpTo(_, _)
SeqsUpTo(S, n) ==
    IF n = 0 THEN {<<>>}
    ELSE LET shorter == SeqsUpTo(S, n - 1)
         IN  shorter \cup {<<c>> \o s : c \in S, s \in {t \in shorter : Len(t) = n - 1}}

Pads == SeqsUpTo(PadChars, MaxPad)

Cores ==
    { <<>>,
      KeyPrefix,
      KeyPrefix \o <<"a">>,
      KeyPrefix \o <<"a", " ", "b">>,
      KeyPrefix \o <<"a", "\t", "b">>,
      KeyPrefix \o <<"a", "FS", "b">>,
      KeyPrefix \o <<"a", DQ>>,
      <<"s", "k", "-", "a", "n", "t">>,
      <<"x">> \o KeyPrefix \o <<"a">>,
      <<SQ>> \o KeyPrefix \o <<"a", SQ>>,
      <<SQ>> \o KeyPrefix \o <<"a", DQ>>,
      <<SQ>>,
      <<"n", "o", "t", "-", "a", "-", "k", "e", "y">>,
      <<"n", "o", "t", "-", "a", "-", "k", "e", "y", "-", "1", "2">> }

RawKeys == {l \o c \o r : l \in Pads, c \in Cores, r \in Pads}

(***************************************************************************)
(* The validator applied to a raw key, and again to its own output         *)
(***************************************************************************)
Validate ==
    /\ vOut = NotRun
    /\ vOut' = ValidateApiKey(vIn)
    /\ UNCHANGED <<vIn, vOut2, env, store, instances, last>>

Revalidate ==
    /\ vOut.status = "ok"
    /\ vOut2 = NotRun
    /\ vOut2' = ValidateApiKey(vOut.key)
    /\ UNCHANGED <<vIn, vOut, env, store, instances, last>>

(***************************************************************************)
(* Optional values (str | None)                                            *)
(***************************************************************************)
None == [some |-> FALSE, val |-> <<>>]
Some(k) == [some |-> TRUE, val |-> k]

\* Python truth of a str | None: None and '' are false.
Truthy(o) == o.some /\ o.val # <<>>

(***************************************************************************)
(* The environment of the process: the credential store and os.environ     *)
(***************************************************************************)
\* What each step of the store lookup does: the import of
\* aden_tools.credentials, CredentialStoreAdapter.default(),
\* creds.is_available("anthropic") and creds.get("anthropic").  A step
\* returns, raises ImportError, or raises another exception ("Fault"); a
\* step that is not reached is "n/a".
StepErrors == {"ImportError", "Fault"}

StoreOf(i, d, a, g, v) == [imp |-> i, dflt |-> d, avail |-> a, get |-> g, val |-> v]

KeyA == KeyPrefix \o <<"a">>
KeyS == KeyPrefix \o <<"s">>
KeyE == KeyPrefix \o <<"e">>

\* Values creds.get("anthropic") returns.
StoreValues == {None, Some(<<>>), Some(KeyS), Some(<<" ">> \o KeyS), Some(<<SQ>> \o KeyS \o <<SQ>>)}

Stores ==
    {StoreOf(e, "n/a", "n/a", "n/a", None) : e \in StepErrors}
    \cup {StoreOf("ok", e, "n/a", "n/a", None) : e \in StepErrors}
    \cup {StoreOf("ok", "ok", e, "n/a", None) : e \in StepErrors \cup {"False"}}
    \cup {StoreOf("ok", "ok", "True", e, None) : e \in StepErrors}
    \cup {StoreOf("ok", "ok", "True", "value", v) : v \in StoreValues}

\* Values of os.environ.get("ANTHROPIC_API_KEY").
EnvValues == {None, Some(<<>>), Some(KeyE), Some(KeyE \o <<"\t">>), Some(<<" ">>)}

\* Values of the api_key argument of AnthropicProvider(...).
ExplicitKeys ==
    {None, Some(<<>>), Some(<<" ">>), Some(KeyA), Some(<<" ">> \o KeyA \o <<" ">>),
     Some(KeyA \o <<"\n">>), Some(<<DQ>> \o KeyA \o <<DQ>>), Some(<<"k", "e", "y">>)}

DefaultModel == "claude-haiku-4-5-20251001"
Models == {DefaultModel, "claude-other"}

(***************************************************************************)
(* _get_api_key_from_credential_store                                      *)
(***************************************************************************)
\* The function's outcome: the value returned or the exception that leaves
\* it, and the sources it consulted, in order.
Returned(v, l) == [raised |-> "none", value |-> v, lookups |-> l]
Raised(x, l)   == [raised |-> x, value |-> None, lookups |-> l]

\* The resolver without its except clause.
GetApiKeyNoExcept(st, e) ==
    IF st.imp # "ok" THEN Raised(st.imp, <<"store">>)
    ELSE IF st.dflt # "ok" THEN Raised(st.dflt, <<"store">>)
    ELSE IF st.avail \in StepErrors THEN Raised(st.avail, <<"store">>)
    ELSE IF st.avail = "True"
         THEN IF st.get \in StepErrors THEN Raised(st.get, <<"store">>)
              ELSE Returned(st.val, <<"store">>)
    ELSE Returned(e, <<"store", "env">>)

GetApiKeyFromCredentialStore(st, e) ==
    LET \* except ImportError: pass, then the return after the try
        Caught(x) == IF x = "ImportError"
                     THEN Returned(e, <<"store", "env">>)
                     ELSE Raised(x, <<"store">>)
    IN  IF st.imp # "ok" THEN Caught(st.imp)
        ELSE IF st.dflt # "ok" THEN Caught(st.dflt)
        ELSE IF st.avail \in StepErrors THEN Caught(st.avail)
        ELSE IF st.avail = "True"
             THEN IF st.get \in StepErrors THEN Caught(st.get)
                  ELSE Returned(st.val, <<"store">>)
        ELSE Returned(e, <<"store", "env">>)

(***************************************************************************)
(* AnthropicProvider.__init__                                              *)
(***************************************************************************)
NoDelegate == [made |-> FALSE, model |-> "", api_key |-> <<>>]
NoSelf == [built |-> FALSE, api_key |-> <<>>, model |-> "", provider |-> NoDelegate]

\* The record of one construction: its arguments, the sources consulted,
\* the raw key, the validator's outcome, the LiteLLMProvider(...) call, the
\* exception that left __init__ ("none": it returned), the object, and the
\* calls in the order made.
InitRecord(api_key, model, res) ==
    [op |-> "init", explicit |-> api_key, model |-> model, lookups |-> res.lookups,
     raw |-> res.value, validated |-> NotRun, delegate |-> NoDelegate,
     error |-> "none", self |-> NoSelf, trace |-> <<"resolve">>]

\* __init__ handing the raw key, not the normalized one, to the delegate.
ProviderInitRawKey(api_key, model, st, e, delegateOk) ==
    LET res == IF Truthy(api_key) THEN Returned(api_key, <<>>)
               ELSE GetApiKeyFromCredentialStore(st, e)
        raw_api_key == res.value
        base == InitRecord(api_key, model, res)
        v == ValidateApiKey(raw_api_key.val)
        d == [made |-> TRUE, model |-> model, api_key |-> raw_api_key.val]
    IN  IF res.raised # "none" THEN [base EXCEPT !.error = "StoreFault"]
        ELSE IF ~Truthy(raw_api_key) THEN [base EXCEPT !.error = "MissingCredential"]
        ELSE IF v.status # "ok"
        THEN [base EXCEPT !.validated = v, !.error = v.status,
                          !.trace = <<"resolve", "validate">>]
        ELSE IF ~delegateOk
        THEN [base EXCEPT !.validated = v, !.delegate = d, !.error = "DelegateError",
                          !.trace = <<"resolve", "validate", "LiteLLMProvider">>]
        ELSE [base EXCEPT !.validated = v, !.delegate = d,
                          !.self = [built |-> TRUE, api_key |-> v.key,
                                    model |-> model, provider |-> d],
                          !.trace = <<"resolve", "validate", "LiteLLMProvider">>]

\* __init__ without the "if not raw_api_key" check.
ProviderInitNoMissingCheck(api_key, model, st, e, delegateOk) ==
    LET res == IF Truthy(api_key) THEN Returned(api_key, <<>>)
               ELSE GetApiKeyFromCredentialStore(st, e)
        raw_api_key == res.value
        base == InitRecord(api_key, model, res)
        v == ValidateApiKey(raw_api_key.val)
        d == [made |-> TRUE, model |-> model, api_key |-> v.key]
    IN  IF res.raised # "none" THEN [base EXCEPT !.error = "StoreFault"]
        ELSE IF v.status # "ok"
        THEN [base EXCEPT !.validated = v, !.error = v.status,
                          !.trace = <<"resolve", "validate">>]
        ELSE IF ~delegateOk
        THEN [base EXCEPT !.validated = v, !.delegate = d, !.error = "DelegateError",
                          !.trace = <<"resolve", "validate", "LiteLLMProvider">>]
        ELSE [base EXCEPT !.validated = v, !.delegate = d,
                          !.self = [built |-> TRUE, api_key |-> v.key,
                                    model |-> model, provider |-> d],
                          !.trace = <<"resolve", "validate", "LiteLLMProvider">>]

\* delegateOk: whether LiteLLMProvider(model=..., api_key=...) returns; its
\* own exception leaves __init__ unchanged.
ProviderInit(api_key, model, st, e, delegateOk) ==
    LET \* raw_api_key = api_key or _get_api_key_from_credential_store()
        res == IF Truthy(api_key) THEN Returned(api_key, <<>>)
               ELSE GetApiKeyFromCredentialStore(st, e)
        raw_api_key == res.value
        base == InitRecord(api_key, model, res)
        \* self.api_key = _validate_api_key(raw_api_key)
        v == ValidateApiKey(raw_api_key.val)
        \* LiteLLMProvider(model=model, api_key=self.api_key)
        d == [made |-> TRUE, model |-> model, api_key |-> v.key]
    IN  IF res.raised # "none" THEN [base EXCEPT !.error = "StoreFault"]
        ELSE IF ~Truthy(raw_api_key) THEN [base EXCEPT !.error = "MissingCredential"]
        ELSE IF v.status # "ok"
        THEN [base EXCEPT !.validated = v, !.error = v.status,
                          !.trace = <<"resolve", "validate">>]
        ELSE IF ~delegateOk
        THEN [base EXCEPT !.validated = v, !.delegate = d, !.error = "DelegateError",
                          !.trace = <<"resolve", "validate", "LiteLLMProvider">>]
        ELSE [base EXCEPT !.validated = v, !.delegate = d,
                          !.self = [built |-> TRUE, api_key |-> v.key,
                                    model |-> model, provider |-> d],
                          !.trace = <<"resolve", "validate", "LiteLLMProvider">>]

(***************************************************************************)
(* AnthropicProvider.complete / complete_with_tools                        *)
(***************************************************************************)
\* Arguments of complete(messages, system, tools, max_tokens,
\* response_format, json_mode).
CompleteArgs ==
    { [messages |-> "m1", system |-> "", tools |-> "None", max_tokens |-> 1024,
       response_format |-> "None", json_mode |-> FALSE],
      [messages |-> "m2", system |-> "sys", tools |-> "tools", max_tokens |-> 16,
       response_format |-> "fmt", json_mode |-> TRUE],
      [messages |-> "m1", system |-> "sys", tools |-> "None", max_tokens |-> 16,
       response_format |-> "fmt", json_mode |-> FALSE] }

\* Arguments of complete_with_tools(messages, system, tools, tool_executor,
\* max_iterations).
ToolArgs ==
    { [messages |-> "m1", system |-> "sys", tools |-> "tools", tool_executor |-> "ex1",
       max_iterations |-> 10],
      [messages |-> "m2", system |-> "", tools |-> "tools2", tool_executor |-> "ex2",
       max_iterations |-> 3] }

\* What a call of the delegate does: returns a response or raises.
DelegateOutcomes ==
    { [kind |-> "return", val |-> "response1"],
      [kind |-> "return", val |-> "response2"],
      [kind |-> "raise", val |-> "error"] }

\* complete forgetting to forward response_format.
ProviderCompleteDropsFormat(i, self, a, dout) ==
    [op |-> "complete", inst |-> i, args |-> a,
     calls |-> << [method |-> "complete", target |-> self.provider,
                   kwargs |-> [messages |-> a.messages, system |-> a.system,
                               tools |-> a.tools, max_tokens |-> a.max_tokens,
                               response_format |-> "None",
                               json_mode |-> a.json_mode]] >>,
     delegated |-> dout, outcome |-> dout]

\* The record of one complete call on instance i: the calls made on the
\* delegate, what the delegate did (dout) and what the caller got.
ProviderComplete(i, self, a, dout) ==
    [op |-> "complete", inst |-> i, args |-> a,
     calls |-> << [method |-> "complete", target |-> self.provider,
                   kwargs |-> [messages |-> a.messages, system |-> a.system,
                               tools |-> a.tools, max_tokens |-> a.max_tokens,
                               response_format |-> a.response_format,
                               json_mode |-> a.json_mode]] >>,
     delegated |-> dout, outcome |-> dout]

ProviderCompleteWithTools(i, self, a, dout) ==
    [op |-> "complete_with_tools", inst |-> i, args |-> a,
     calls |-> << [method |-> "complete_with_tools", target |-> self.provider,
                   kwargs |-> [messages |-> a.messages, system |-> a.system,
                               tools |-> a.tools, tool_executor |-> a.tool_executor,
                               max_iterations |-> a.max_iterations]] >>,
     delegated |-> dout, outcome |-> dout]

(***************************************************************************)
(* The program: providers are constructed and used                         *)
(***************************************************************************)
\* Most provider objects alive at once.
MaxInstances == 2

NoOp == [op |-> "none"]

AnyStore == StoreOf("ImportError", "n/a", "n/a", "n/a", None)

Init ==
    /\ vIn = <<>>
    /\ vOut = NotRun
    /\ vOut2 = NotRun
    /\ env \in EnvValues
    /\ store \in Stores
    /\ instances = <<>>
    /\ last = NoOp

\* AnthropicProvider(api_key, model)
Construct ==
    /\ Len(instances) < MaxInstances
    /\ \E k \in ExplicitKeys, m \in Models, delegateOk \in BOOLEAN :
          LET r == ProviderInit(k, m, store, env, delegateOk) IN
          /\ last' = r
          /\ instances' = IF r.error = "none" THEN Append(instances, r.self)
                          ELSE instances
    /\ UNCHANGED <<vIn, vOut, vOut2, env, store>>

\* instances[i].complete(...)
Complete ==
    /\ \E i \in 1..Len(instances), a \in CompleteArgs, dout \in DelegateOutcomes :
          last' = ProviderComplete(i, instances[i], a, dout)
    /\ UNCHANGED <<vIn, vOut, vOut2, env, store, instances>>

\* instances[i].complete_with_tools(...)
CompleteWithTools ==
    /\ \E i \in 1..Len(instances), a \in ToolArgs, dout \in DelegateOutcomes :
          last' = ProviderCompleteWithTools(i, instances[i], a, dout)
    /\ UNCHANGED <<vIn, vOut, vOut2, env, store, instances>>

Next == Construct \/ Complete \/ CompleteWithTools

Spec == Init /\ [][Next]_vars

InitV ==
    /\ vIn \in RawKeys
    /\ vOut = NotRun
    /\ vOut2 = NotRun
    /\ env = None
    /\ store = AnyStore
    /\ instances = <<>>
    /\ last = NoOp

NextV == Validate \/ Revalidate

SpecV == InitV /\ [][NextV]_vars

(***************************************************************************)
(* Properties of the validator (checked under SpecV)                       *)
(***************************************************************************)
\* Positions of the characters of k that are not whitespace, and the first
\* and last of them: the trimmed string is k between these two positions.
NonWs(k) == {i \in 1..Len(k) : k[i] \notin Whitespace}
FirstNonWs(k) == CHOOSE i \in NonWs(k) : \A j \in NonWs(k) : i <= j
LastNonWs(k) == CHOOSE i \in NonWs(k) : \A j \in NonWs(k) : j <= i

EmptyOrWhitespaceOnly(k) == NonWs(k) = {}
HasControlChar(k) == \E i \in 1..Len(k) : k[i] \in {"\n", "\r", "\t", "VT", "FF"}
QuoteWrapped(k) ==
    /\ NonWs(k) # {}
    /\ k[FirstNonWs(k)] \in {DQ, SQ}
    /\ k[LastNonWs(k)] = k[FirstNonWs(k)]
PrefixedWhenTrimmed(k) ==
    /\ NonWs(k) # {}
    /\ \A j \in 1..7 :
          /\ FirstNonWs(k) + j - 1 <= LastNonWs(k)
          /\ k[FirstNonWs(k) + j - 1] = <<"s", "k", "-", "a", "n", "t", "-">>[j]

\* The outcome of the first check that applies, in the order 1..4.
FirstApplicable(k) ==
    IF EmptyOrWhitespaceOnly(k) THEN "EmptyOrWhitespace"
    ELSE IF HasControlChar(k) THEN "ControlCharacters"
    ELSE IF QuoteWrapped(k) THEN "QuotedKey"
    ELSE IF ~PrefixedWhenTrimmed(k) THEN "UnexpectedFormat"
    ELSE "ok"

\* C1: for every raw key, the outcome of _validate_api_key is that of the
\* first check that applies in the order empty/whitespace, control character
\* in the raw string, quote-wrapped after trimming, missing prefix after
\* trimming; the key is accepted only when none applies.
C1_CheckOrder == vOut # NotRun => vOut.status = FirstApplicable(vIn)

\* A key whose only control character is in the padding trimming would
\* remove, and which fails a later check as well, fails with ControlCharacters.
C1_Witness ==
    /\ vOut.status = "ControlCharacters"
    /\ ~HasControlChar(SubSeq(vIn, FirstNonWs(vIn), LastNonWs(vIn)))
    /\ ~PrefixedWhenTrimmed(vIn)

\* C7: a key that is non-empty, free of control characters, not
\* quote-wrapped and prefixed with 'sk-ant-' once trimmed is accepted, and
\* the result is the input between its first and last non-whitespace
\* characters, unchanged.
C7_AcceptsAndTrims ==
    ( /\ vOut # NotRun
      /\ ~EmptyOrWhitespaceOnly(vIn)
      /\ ~HasControlChar(vIn)
      /\ ~QuoteWrapped(vIn)
      /\ PrefixedWhenTrimmed(vIn) )
    => /\ vOut.status = "ok"
       /\ vOut.key = SubSeq(vIn, FirstNonWs(vIn), LastNonWs(vIn))

\* A padded key ('  sk-ant-a  ') was accepted and came back shorter.
C7_Witness ==
    /\ vOut.status = "ok"
    /\ vIn[1] = " "
    /\ vIn[Len(vIn)] = " "
    /\ vOut.key = <<"s", "k", "-", "a", "n", "t", "-", "a">>

\* C8: the validator applied to its own successful output succeeds and
\* returns that output.
C8_Idempotent ==
    vOut2 # NotRun => vOut2.status = "ok" /\ vOut2.key = vOut.key

\* The output of a key that needed trimming was validated again.
C8_Witness ==
    /\ vOut2 # NotRun
    /\ vOut.key # vIn
    /\ vOut2.key = vOut.key

(***************************************************************************)
(* Properties of the provider (checked under Spec)                         *)
(***************************************************************************)
ValidatorErrors ==
    {"EmptyOrWhitespace", "ControlCharacters", "QuotedKey", "UnexpectedFormat"}

\* k between its first and last non-whitespace characters.
Trimmed(k) == IF NonWs(k) = {} THEN <<>> ELSE SubSeq(k, FirstNonWs(k), LastNonWs(k))

WellFormedKey(k) ==
    /\ k # <<>>
    /\ ~HasControlChar(k)
    /\ ~(k[1] \in {DQ, SQ} /\ k[Len(k)] = k[1])
    /\ Len(k) >= 7
    /\ SubSeq(k, 1, 7) = <<"s", "k", "-", "a", "n", "t", "-">>

C3_ExplicitKeyWins ==
    (last.op = "init" /\ last.explicit.some)
    => /\ last.raw = last.explicit
       /\ last.lookups = <<>>

\* The store ran without an exception and gave no value.
StoreGivesNoValue(st) ==
    \/ st.avail = "False"
    \/ st.avail = "True" /\ st.get = "value" /\ ~Truthy(st.val)

StoreGivesValue(st) == st.avail = "True" /\ st.get = "value" /\ Truthy(st.val)

\* Some step of the store lookup raises x.
StoreRaises(st, x) == x \in {st.imp, st.dflt, st.avail, st.get}

\* Two optional values that are the same value or both no value.
SameValue(a, b) == a = b \/ (~Truthy(a) /\ ~Truthy(b))

\* C4 (as claimed): with no explicit key, a store that yields no value
\* (not available, or available with get returning None or '') makes the
\* resolver return the environment variable's value, and a store that yields
\* a value makes it return that value.
C4_StoreThenEnvironment ==
    (last.op = "init" /\ ~last.explicit.some)
    => /\ StoreGivesNoValue(store) => SameValue(last.raw, env)
       /\ StoreGivesValue(store) => last.raw = store.val

\* C5 (as claimed): with no explicit key, a store that cannot be loaded or
\* faults while being loaded or queried never makes the resolver raise: the
\* environment variable's value (or None) is returned.
C5_NeverRaises ==
    (/\ last.op = "init"
     /\ ~last.explicit.some
     /\ (StoreRaises(store, "ImportError") \/ StoreRaises(store, "Fault")))
    => /\ last.error # "StoreFault"
       /\ last.raw = env

\* C5 (amended): with no explicit key, an ImportError raised while the
\* store is imported or queried is swallowed and the resolver returns the
\* environment variable's value (or None) after consulting it; any other
\* exception of the store leaves the resolver and the constructor.
C5_ImportErrorFallsBack ==
    (last.op = "init" /\ ~last.explicit.some)
    => /\ StoreRaises(store, "ImportError")
          => /\ last.error # "StoreFault"
             /\ last.raw = env
             /\ last.lookups = <<"store", "env">>
       /\ StoreRaises(store, "Fault")
          => /\ last.error = "StoreFault"
             /\ ~last.delegate.made

\* The store could not be imported and the environment's key was used.
C5_Witness ==
    /\ last.op = "init"
    /\ ~last.explicit.some
    /\ store.imp = "ImportError"
    /\ Truthy(env)
    /\ last.raw = env
    /\ last.error = "none"

C9_State ==
    /\ last.op = "init" =>
          /\ last.delegate.made
             => /\ Truthy(last.raw)
                /\ last.validated.status = "ok"
                /\ last.delegate.api_key = Trimmed(last.raw.val)
                /\ last.delegate.model = last.model
                /\ last.trace = <<"resolve", "validate", "LiteLLMProvider">>
          /\ last.error \in {"StoreFault", "MissingCredential"} \cup ValidatorErrors
             => /\ ~last.delegate.made
                /\ ~last.self.built
                /\ \A j \in 1..Len(last.trace) : last.trace[j] # "LiteLLMProvider"
          /\ last.self.built
             => /\ last.error = "none"
                /\ last.delegate.made
                /\ last.self.provider = last.delegate
                /\ last.self.api_key = last.delegate.api_key
                /\ last.self.model = last.model
    /\ \A i \in 1..Len(instances) : instances[i].built /\ instances[i].provider.made

C9_Step ==
    /\ (last'.op = "init" /\ last'.error # "none") => instances' = instances
    /\ instances' # instances
       => /\ last'.op = "init"
          /\ last'.error = "none"
          /\ instances' = Append(instances, last'.self)

C9_NoPartialSuccess == []C9_State /\ [][C9_Step]_vars

\* A padded key was accepted and the delegate got it trimmed.
C9_Witness ==
    /\ last.op = "init"
    /\ last.error = "none"
    /\ last.raw.val # last.delegate.api_key
    /\ Len(instances) = 1
    /\ instances[1].provider = last.delegate

\* C10: a call of complete or complete_with_tools makes exactly one call of
\* the delegate's method of the same name, on the provider's own delegate,
\* with every parameter unchanged, and the caller gets the delegate's
\* response or error as it is.
C10_PassThrough ==
    last.op \in {"complete", "complete_with_tools"}
    => /\ Len(last.calls) = 1
       /\ last.calls[1].method = last.op
       /\ last.calls[1].target = instances[last.inst].provider
       /\ last.calls[1].kwargs = last.args
       /\ last.outcome = last.delegated

\* The delegate raised during complete and the caller got that error.
C10_Witness ==
    /\ last.op = "complete"
    /\ last.args.response_format = "fmt"
    /\ last.outcome = [kind |-> "raise", val |-> "error"]

====
